---- MODULE Spec2Model ----
(***************************************************************************)
(* CSearch: substring scan, index sort and exact-path lookup over a flat   *)
(* binary index buffer (Sources/CSearch/CSearch.c).                        *)
(*                                                                         *)
(* The buffer is modelled byte for byte: a sequence of bytes 0..255 that   *)
(* holds fixed-stride records followed by the string payloads the records  *)
(* reference by (offset, length).  Every field is decoded from the bytes   *)
(* at the offsets the C code uses.  Byte positions are 0-based as in C;    *)
(* position p of a buffer is element p + 1 of the sequence.                *)
(***************************************************************************)
EXTENDS Integers, Sequences, FiniteSets, TLC

VARIABLES
    data,       \* the index buffer (data_ptr[0 .. Len(data) - 1]), read-only
    adjacent,   \* bytes mapped right after the buffer; past them memory is unmapped
    libc,       \* which C library's memmem the build links
    indices,    \* the caller-owned index array perform_index_sort permutes
    last,       \* the last completed call: operation, arguments, result
    par,        \* parallel scan: the partitioned call and each worker's progress
    heap,       \* parallel scan: the memory holding the workers' output regions
    writers     \* parallel scan: per heap location, the workers that wrote it

vars == <<data, adjacent, libc, indices, last, par, heap, writers>>

(***************************************************************************)
(* Bounds of the model.                                                    *)
(***************************************************************************)
MaxRecords == 3     \* records per buffer, scan / lookup / comparator
SortRecords == 2    \* records per buffer, sort
MaxIndices == 3     \* length of the index array handed to the sort
ParRecords == 3     \* records per buffer, parallel scan
NumWorkers == 2     \* partitions of a parallel scan
RawRecords == 1     \* records per buffer, unvalidated input

(***************************************************************************)
(* Parameters of the caller and its indexer.                               *)
(***************************************************************************)
ItemBaseOffset == 4     \* item_base_offset: the records start after a header
RecordStride == 48      \* item_record_size of the buffers built here
ShortStride == 40       \* a stride too small to hold the fields (needs 44)
OverrunLen == 64        \* what a corrupt length field exceeds the true length by
AdjacentLen == 128      \* mapped bytes after the buffer, when there are any
Unwritten == 0 - 1      \* content of an output slot the callee has not written

Min(a, b) == IF a < b THEN a ELSE b

Sign(x) == IF x < 0 THEN 0 - 1 ELSE IF x > 0 THEN 1 ELSE 0

\* Lexicographic order on equal-length tuples of integers.
RECURSIVE LexLess(_, _)
LexLess(x, y) ==
    IF Len(x) = 0 THEN FALSE
    ELSE IF Head(x) # Head(y) THEN Head(x) < Head(y)
    ELSE LexLess(Tail(x), Tail(y))

(***************************************************************************)
(* The external indexer: lays records and strings out as section 3 of the  *)
(* specification describes.  A record template gives the field values; the *)
(* "over" field names a string whose stored length is corrupt.             *)
(***************************************************************************)
le32(v) ==
    << v % 256, (v \div 256) % 256, (v \div 65536) % 256, (v \div 16777216) % 256 >>

Fill(n, b) == [k \in 1..n |-> b]

Zeros(n) == Fill(n, 0)

StrBytes(r) == r.name \o r.path \o r.lower

RECURSIVE StrBytesBefore(_, _)
StrBytesBefore(recs, i) ==
    IF i <= 1 THEN 0 ELSE StrBytesBefore(recs, i - 1) + Len(StrBytes(recs[i - 1]))

RECURSIVE AllStrBytes(_)
AllStrBytes(recs) ==
    IF Len(recs) = 0 THEN << >> ELSE StrBytes(Head(recs)) \o AllStrBytes(Tail(recs))

StoredLen(r, f, n) == IF r.over = f THEN n + OverrunLen ELSE n

RecordBytes(recs, i) ==
    LET r == recs[i]
        s0 == ItemBaseOffset + Len(recs) * RecordStride + StrBytesBefore(recs, i)
        nameOff == s0
        pathOff == s0 + Len(r.name)
        lowerOff == s0 + Len(r.name) + Len(r.path)
    IN  r.size \o r.modified \o Zeros(4)
        \o le32(nameOff) \o le32(StoredLen(r, "name", Len(r.name)))
        \o le32(pathOff) \o le32(StoredLen(r, "path", Len(r.path)))
        \o le32(lowerOff) \o le32(StoredLen(r, "lower", Len(r.lower)))
        \o Zeros(RecordStride - 44)

RECURSIVE AllRecordBytes(_, _)
AllRecordBytes(recs, i) ==
    IF i > Len(recs) THEN << >>
    ELSE RecordBytes(recs, i) \o AllRecordBytes(recs, i + 1)

\* The header holds the record count; the caller passes it on as `count`.
BuildBuffer(recs) ==
    le32(Len(recs)) \o Zeros(ItemBaseOffset - 4)
    \o AllRecordBytes(recs, 1) \o AllStrBytes(recs)

\* Sizes (int64, little-endian) and modification times (IEEE-754 binary64).
Size100 == << 100, 0, 0, 0, 0, 0, 0, 0 >>
Size300 == << 44, 1, 0, 0, 0, 0, 0, 0 >>
SizeMinus1 == << 255, 255, 255, 255, 255, 255, 255, 255 >>
Size4G == << 0, 0, 0, 0, 1, 0, 0, 0 >>
Date0 == << 0, 0, 0, 0, 0, 0, 0, 0 >>
DateMinus0 == << 0, 0, 0, 0, 0, 0, 0, 128 >>
Date1 == << 0, 0, 0, 0, 0, 0, 240, 63 >>
Date2 == << 0, 0, 0, 0, 0, 0, 0, 64 >>
DateMinus1 == << 0, 0, 0, 0, 0, 0, 240, 191 >>
DateNaN == << 0, 0, 0, 0, 0, 0, 248, 127 >>

\* "aB" / "/a", "a" / "/a/b", "B" / "/b", 0xC3 0xA9 / "/", "" / "/a".
Templates ==
    << [name |-> << 97, 66 >>, lower |-> << 97, 98 >>, path |-> << 47, 97 >>,
        size |-> Size300, modified |-> Date2, over |-> "none"],
       [name |-> << 97 >>, lower |-> << 97 >>, path |-> << 47, 97, 47, 98 >>,
        size |-> Size100, modified |-> Date1, over |-> "none"],
       [name |-> << 66 >>, lower |-> << 98 >>, path |-> << 47, 98 >>,
        size |-> Size4G, modified |-> DateMinus1, over |-> "none"],
       [name |-> << 195, 169 >>, lower |-> << 195, 169 >>, path |-> << 47 >>,
        size |-> SizeMinus1, modified |-> Date0, over |-> "none"],
       [name |-> << >>, lower |-> << >>, path |-> << 47, 97 >>,
        size |-> Size300, modified |-> DateMinus0, over |-> "none" ] >>

\* Records of a well-formed record set: spans inside the buffer, no NaN time.
Pool == { Templates[k] : k \in 1..Len(Templates) }

\* A record whose modification time is NaN.
NaNPool == { [Templates[3] EXCEPT !.modified = DateNaN] }

\* Records one of whose string lengths runs past the end of the buffer.
CorruptPool ==
    { [Templates[1] EXCEPT !.over = f] : f \in { "name", "path", "lower" } }

SeqsUpTo(S, n) == UNION { [1..k -> S] : k \in 0..n }

BuffersOver(S, n) == { BuildBuffer(recs) : recs \in SeqsUpTo(S, n) }

\* The number of records the indexer put in a buffer it built.
RecordCount(buf) == buf[1]

Queries == { << >>, << 97 >>, << 98 >>, << 97, 98 >>, << 66 >>, << 97, 98, 98 >> }

Targets == { << >>, << 47 >>, << 47, 97 >>, << 47, 97, 47, 98 >>, << 47, 98 >>, << 47, 122 >> }

(***************************************************************************)
(* Memory.  `mem` is what a read through data_ptr can reach: the buffer    *)
(* followed by the adjacent mapped bytes.  A read past the buffer is       *)
(* undefined behaviour: it yields the adjacent bytes, or faults when it    *)
(* leaves the mapped memory.                                               *)
(***************************************************************************)
InRange(limit, pos, n) == pos <= limit /\ n <= limit - pos

byte_at(mem, pos) == IF pos < Len(mem) THEN mem[pos + 1] ELSE 0

\* uint32_t, little-endian.  Values of 2^30 and more are kept as 2^30: the code
\* uses the value as an offset or a length only, and all of these lie beyond
\* any memory modelled here.
read_u32(mem, pos) ==
    IF byte_at(mem, pos + 3) >= 64 THEN 1073741824
    ELSE byte_at(mem, pos) + 256 * byte_at(mem, pos + 1)
         + 65536 * byte_at(mem, pos + 2) + 16777216 * byte_at(mem, pos + 3)

\* The bytes [pos, pos + n) a (pointer, length) pair denotes.
span(mem, pos, n) == [k \in 1..n |-> byte_at(mem, pos + k - 1)]

\* int64_t, kept as (signed high 32 bits, bits 31..16, bits 15..0): the numeric
\* order of the integers is the lexicographic order of these triples.
read_i64(mem, pos) ==
    LET b(k) == byte_at(mem, pos + k)
        top == IF b(7) >= 128 THEN b(7) - 256 ELSE b(7)
    IN  << top * 16777216 + b(6) * 65536 + b(5) * 256 + b(4),
           b(3) * 256 + b(2), b(1) * 256 + b(0) >>

i64_less(x, y) == LexLess(x, y)

\* double (IEEE-754 binary64, little-endian): sign, NaN flag and magnitude bits.
read_f64(mem, pos) ==
    LET b(k) == byte_at(mem, pos + k)
        exponent == (b(7) % 128) * 16 + (b(6) \div 16)
        fraction == << b(6) % 16, b(5), b(4), b(3), b(2), b(1), b(0) >>
    IN  [neg |-> b(7) >= 128,
         nan |-> exponent = 2047 /\ fraction # << 0, 0, 0, 0, 0, 0, 0 >>,
         mag |-> << (b(7) % 128) * 16777216 + b(6) * 65536 + b(5) * 256 + b(4),
                    b(3) * 256 + b(2), b(1) * 256 + b(0) >>]

\* The C operator < on doubles: false when either side is NaN, -0 equals +0.
f64_less(x, y) ==
    IF x.nan \/ y.nan THEN FALSE
    ELSE IF x.mag = << 0, 0, 0 >> /\ y.mag = << 0, 0, 0 >> THEN FALSE
    ELSE IF x.neg # y.neg THEN x.neg
    ELSE IF x.neg THEN LexLess(y.mag, x.mag)
    ELSE LexLess(x.mag, y.mag)

(***************************************************************************)
(* C library.                                                              *)
(***************************************************************************)
LibcFlavours == { "apple", "freebsd" }

\* memcmp(a, b, n): the difference of the first differing bytes, as unsigned char.
memcmp(a, b, n) ==
    LET differing == { k \in 1..n : a[k] # b[k] }
        first == CHOOSE k \in differing : \A j \in differing : k <= j
    IN  IF differing = { } THEN 0 ELSE a[first] - b[first]

\* memmem(big, big_len, little, little_len) # NULL.  The comparator signature of
\* qsort_r below fixes the build to a BSD-family libc.  Apple's memmem returns
\* NULL when either length is 0; FreeBSD 12 and 13 return `big` for an empty
\* `little`.
memmem(big, little, flavour) ==
    IF Len(little) = 0 THEN flavour # "apple"
    ELSE IF Len(big) < Len(little) THEN FALSE
    ELSE \E s \in 0..(Len(big) - Len(little)) :
            \A k \in 1..Len(little) : big[s + k] = little[k]

(***************************************************************************)
(* What an operation dereferences, as (position, length) ranges relative   *)
(* to data_ptr, and what becomes of ranges that leave the buffer.          *)
(***************************************************************************)
OutOfBuffer(reads, lim) == \E r \in reads : ~InRange(lim, r[1], r[2])

Unmapped(reads, mapped) == \E r \in reads : r[2] > 0 /\ ~InRange(mapped, r[1], r[2])

\* A string field: the 8 bytes holding (offset, length) and, if those are
\* mapped, the span they name.
field_reads(mem, pos) ==
    { << pos, 8 >> }
    \cup (IF InRange(Len(mem), pos, 8)
          THEN { << read_u32(mem, pos), read_u32(mem, pos + 4) >> }
          ELSE { })

get_item_ptr(base, stride, index) == base + index * stride

(***************************************************************************)
(* perform_search_scan                                                     *)
(***************************************************************************)
\* results_buffer[slot] = v, in the memory `out` that holds results_buffer; a
\* store past the end of that memory is recorded, not performed.
store(st, slot, v) ==
    IF slot < Len(st.out)
    THEN [st EXCEPT !.out[slot + 1] = v]
    ELSE [st EXCEPT !.overflow = TRUE]

\* The loop body with the store indexed by the record instead of match_count:
\* results_buffer[i] = i.
scan_iteration_by_record(mem, base, stride, i, query, flavour, rb, st) ==
    LET item_ptr == get_item_ptr(base, stride, i)
        lower_name_offset == read_u32(mem, item_ptr + 36)
        lower_name_len == read_u32(mem, item_ptr + 40)
        name == span(mem, lower_name_offset, lower_name_len)
    IN  IF memmem(name, query, flavour)
        THEN [store(st, rb + i, i) EXCEPT !.match_count = st.match_count + 1]
        ELSE st

\* The body of the for loop, for record i.  st: the output memory, match_count
\* and whether a store left the output memory; rb: where results_buffer starts.
scan_iteration(mem, base, stride, i, query, flavour, rb, st) ==
    LET item_ptr == get_item_ptr(base, stride, i)
        lower_name_offset == read_u32(mem, item_ptr + 36)
        lower_name_len == read_u32(mem, item_ptr + 40)
        name == span(mem, lower_name_offset, lower_name_len)
    IN  IF memmem(name, query, flavour)
        THEN [store(st, rb + st.match_count, i) EXCEPT !.match_count = st.match_count + 1]
        ELSE st

\* The loop with the bound i <= end_index.
RECURSIVE scan_loop_inclusive(_, _, _, _, _, _, _, _, _)
scan_loop_inclusive(mem, base, stride, i, end_index, query, flavour, rb, st) ==
    IF i <= end_index
    THEN scan_loop_inclusive(mem, base, stride, i + 1, end_index, query, flavour, rb,
                             scan_iteration(mem, base, stride, i, query, flavour, rb, st))
    ELSE st

RECURSIVE scan_loop(_, _, _, _, _, _, _, _, _)
scan_loop(mem, base, stride, i, end_index, query, flavour, rb, st) ==
    IF i < end_index
    THEN scan_loop(mem, base, stride, i + 1, end_index, query, flavour, rb,
                   scan_iteration(mem, base, stride, i, query, flavour, rb, st))
    ELSE st

perform_search_scan(mem, base, stride, start_index, end_index, query, flavour, out, rb) ==
    scan_loop(mem, base, stride, start_index, end_index, query, flavour, rb,
              [out |-> out, match_count |-> 0, overflow |-> FALSE])

scan_reads(mem, base, stride, start_index, end_index) ==
    UNION { field_reads(mem, get_item_ptr(base, stride, i) + 36) :
                i \in start_index..(end_index - 1) }

(***************************************************************************)
(* perform_path_lookup                                                     *)
(***************************************************************************)
\* The loop skipping only the paths shorter than the target.
RECURSIVE lookup_loop_prefix(_, _, _, _, _, _)
lookup_loop_prefix(mem, base, stride, i, count, target) ==
    IF i < count
    THEN LET item_ptr == get_item_ptr(base, stride, i)
             path_offset == read_u32(mem, item_ptr + 28)
             path_len == read_u32(mem, item_ptr + 32)
         IN  IF path_len < Len(target)
             THEN lookup_loop_prefix(mem, base, stride, i + 1, count, target)
             ELSE IF memcmp(span(mem, path_offset, Len(target)), target, Len(target)) = 0
             THEN i
             ELSE lookup_loop_prefix(mem, base, stride, i + 1, count, target)
    ELSE 0 - 1

RECURSIVE lookup_loop(_, _, _, _, _, _)
lookup_loop(mem, base, stride, i, count, target) ==
    IF i < count
    THEN LET item_ptr == get_item_ptr(base, stride, i)
             path_offset == read_u32(mem, item_ptr + 28)
             path_len == read_u32(mem, item_ptr + 32)
         IN  IF path_len # Len(target)
             THEN lookup_loop(mem, base, stride, i + 1, count, target)
             ELSE IF memcmp(span(mem, path_offset, Len(target)), target, Len(target)) = 0
             THEN i
             ELSE lookup_loop(mem, base, stride, i + 1, count, target)
    ELSE 0 - 1

perform_path_lookup(mem, base, stride, count, target) ==
    lookup_loop(mem, base, stride, 0, count, target)

\* The loop reads records 0 .. found (all of them when nothing is found); it
\* hands a path to memcmp only when its length equals the target's.
lookup_reads(mem, base, stride, count, target, found) ==
    UNION { LET pos == get_item_ptr(base, stride, i) + 28
            IN  { << pos, 8 >> }
                \cup (IF InRange(Len(mem), pos, 8) /\ read_u32(mem, pos + 4) = Len(target)
                      THEN { << read_u32(mem, pos), Len(target) >> }
                      ELSE { }) :
                i \in 0..(IF found >= 0 THEN found ELSE count - 1) }

(***************************************************************************)
(* Calls.  A call whose reads leave the mapped memory faults; otherwise it *)
(* returns what the code computes from the bytes it reads.                 *)
(***************************************************************************)
NoCall ==
    [op |-> "none", args |-> << >>, status |-> "returned", ret |-> 0, out |-> << >>,
     overflow |-> FALSE, oob |-> FALSE]

\* ret: the value returned and whether a store left the output memory.
Outcome(op, args, reads, ret, out) ==
    IF Unmapped(reads, Len(data) + Len(adjacent))
    THEN [op |-> op, args |-> args, status |-> "fault", ret |-> 0, out |-> << >>,
          overflow |-> FALSE, oob |-> TRUE]
    ELSE [op |-> op, args |-> args, status |-> "returned", ret |-> ret.value,
          out |-> out, overflow |-> ret.overflow, oob |-> OutOfBuffer(reads, Len(data))]

Scan(stride, start_index, end_index, query) ==
    LET mem == data \o adjacent
        reads == scan_reads(mem, ItemBaseOffset, stride, start_index, end_index)
        st == perform_search_scan(mem, ItemBaseOffset, stride, start_index, end_index,
                                  query, libc, Fill(end_index - start_index, Unwritten), 0)
    IN  /\ last = NoCall
        /\ last' = Outcome("scan", << stride, start_index, end_index, query >>, reads,
                           [value |-> st.match_count, overflow |-> st.overflow], st.out)
        /\ UNCHANGED << data, adjacent, libc, indices, par, heap, writers >>

Lookup(stride, count, target) ==
    LET mem == data \o adjacent
        found == perform_path_lookup(mem, ItemBaseOffset, stride, count, target)
        reads == lookup_reads(mem, ItemBaseOffset, stride, count, target, found)
    IN  /\ last = NoCall
        /\ last' = Outcome("lookup", << stride, count, target >>, reads,
                           [value |-> found, overflow |-> FALSE], << >>)
        /\ UNCHANGED << data, adjacent, libc, indices, par, heap, writers >>

\* The caller takes the result and is free to call again.
Return ==
    /\ last # NoCall
    /\ last' = NoCall
    /\ UNCHANGED << data, adjacent, libc, indices, par, heap, writers >>

(***************************************************************************)
(* perform_index_sort and its comparators.  ctx is the SortContext.        *)
(***************************************************************************)
SORT_KEY_NAME == 0
SORT_KEY_PATH == 1
SORT_KEY_SIZE == 2
SORT_KEY_DATE == 3

\* The name comparator reading the lowercased name (offsets 36 and 40).
compare_indices_lower_name(ctx, idxA, idxB) ==
    LET ptrA == get_item_ptr(ctx.item_base_offset, ctx.item_record_size, idxA)
        ptrB == get_item_ptr(ctx.item_base_offset, ctx.item_record_size, idxB)
        offA == read_u32(ctx.mem, ptrA + 36)
        lenA == read_u32(ctx.mem, ptrA + 40)
        offB == read_u32(ctx.mem, ptrB + 36)
        lenB == read_u32(ctx.mem, ptrB + 40)
        minLen == Min(lenA, lenB)
        cmp0 == memcmp(span(ctx.mem, offA, minLen), span(ctx.mem, offB, minLen), minLen)
        cmp == IF cmp0 = 0
               THEN (IF lenA < lenB THEN 0 - 1 ELSE IF lenA > lenB THEN 1 ELSE 0)
               ELSE cmp0
    IN  IF ctx.ascending THEN cmp ELSE 0 - cmp

compare_indices_name(ctx, idxA, idxB) ==
    LET ptrA == get_item_ptr(ctx.item_base_offset, ctx.item_record_size, idxA)
        ptrB == get_item_ptr(ctx.item_base_offset, ctx.item_record_size, idxB)
        offA == read_u32(ctx.mem, ptrA + 20)
        lenA == read_u32(ctx.mem, ptrA + 24)
        offB == read_u32(ctx.mem, ptrB + 20)
        lenB == read_u32(ctx.mem, ptrB + 24)
        minLen == Min(lenA, lenB)
        cmp0 == memcmp(span(ctx.mem, offA, minLen), span(ctx.mem, offB, minLen), minLen)
        cmp == IF cmp0 = 0
               THEN (IF lenA < lenB THEN 0 - 1 ELSE IF lenA > lenB THEN 1 ELSE 0)
               ELSE cmp0
    IN  IF ctx.ascending THEN cmp ELSE 0 - cmp

\* The path comparator without the branch `else if (lenA > lenB) cmp = 1`.
compare_indices_path_no_longer(ctx, idxA, idxB) ==
    LET ptrA == get_item_ptr(ctx.item_base_offset, ctx.item_record_size, idxA)
        ptrB == get_item_ptr(ctx.item_base_offset, ctx.item_record_size, idxB)
        offA == read_u32(ctx.mem, ptrA + 28)
        lenA == read_u32(ctx.mem, ptrA + 32)
        offB == read_u32(ctx.mem, ptrB + 28)
        lenB == read_u32(ctx.mem, ptrB + 32)
        minLen == Min(lenA, lenB)
        cmp0 == memcmp(span(ctx.mem, offA, minLen), span(ctx.mem, offB, minLen), minLen)
        cmp == IF cmp0 = 0
               THEN (IF lenA < lenB THEN 0 - 1 ELSE 0)
               ELSE cmp0
    IN  IF ctx.ascending THEN cmp ELSE 0 - cmp

compare_indices_path(ctx, idxA, idxB) ==
    LET ptrA == get_item_ptr(ctx.item_base_offset, ctx.item_record_size, idxA)
        ptrB == get_item_ptr(ctx.item_base_offset, ctx.item_record_size, idxB)
        offA == read_u32(ctx.mem, ptrA + 28)
        lenA == read_u32(ctx.mem, ptrA + 32)
        offB == read_u32(ctx.mem, ptrB + 28)
        lenB == read_u32(ctx.mem, ptrB + 32)
        minLen == Min(lenA, lenB)
        cmp0 == memcmp(span(ctx.mem, offA, minLen), span(ctx.mem, offB, minLen), minLen)
        cmp == IF cmp0 = 0
               THEN (IF lenA < lenB THEN 0 - 1 ELSE IF lenA > lenB THEN 1 ELSE 0)
               ELSE cmp0
    IN  IF ctx.ascending THEN cmp ELSE 0 - cmp

\* The size comparator ignoring ctx->ascending.
compare_indices_size_ascending_only(ctx, idxA, idxB) ==
    LET ptrA == get_item_ptr(ctx.item_base_offset, ctx.item_record_size, idxA)
        ptrB == get_item_ptr(ctx.item_base_offset, ctx.item_record_size, idxB)
        valA == read_i64(ctx.mem, ptrA + 0)
        valB == read_i64(ctx.mem, ptrB + 0)
    IN  IF i64_less(valA, valB) THEN 0 - 1
        ELSE IF i64_less(valB, valA) THEN 1
        ELSE 0

compare_indices_size(ctx, idxA, idxB) ==
    LET ptrA == get_item_ptr(ctx.item_base_offset, ctx.item_record_size, idxA)
        ptrB == get_item_ptr(ctx.item_base_offset, ctx.item_record_size, idxB)
        valA == read_i64(ctx.mem, ptrA + 0)
        valB == read_i64(ctx.mem, ptrB + 0)
    IN  IF i64_less(valA, valB) THEN (IF ctx.ascending THEN 0 - 1 ELSE 1)
        ELSE IF i64_less(valB, valA) THEN (IF ctx.ascending THEN 1 ELSE 0 - 1)
        ELSE 0

compare_indices_date(ctx, idxA, idxB) ==
    LET ptrA == get_item_ptr(ctx.item_base_offset, ctx.item_record_size, idxA)
        ptrB == get_item_ptr(ctx.item_base_offset, ctx.item_record_size, idxB)
        valA == read_f64(ctx.mem, ptrA + 8)
        valB == read_f64(ctx.mem, ptrB + 8)
    IN  IF f64_less(valA, valB) THEN (IF ctx.ascending THEN 0 - 1 ELSE 1)
        ELSE IF f64_less(valB, valA) THEN (IF ctx.ascending THEN 1 ELSE 0 - 1)
        ELSE 0

\* The switch on key: the comparator chosen, applied to (a, b).
compar(key, ctx, a, b) ==
    CASE key = SORT_KEY_NAME -> compare_indices_name(ctx, a, b)
      [] key = SORT_KEY_PATH -> compare_indices_path(ctx, a, b)
      [] key = SORT_KEY_SIZE -> compare_indices_size(ctx, a, b)
      [] key = SORT_KEY_DATE -> compare_indices_date(ctx, a, b)

SortContext(mem, base, stride, ascending) ==
    [mem |-> mem, item_base_offset |-> base, item_record_size |-> stride,
     ascending |-> ascending]

Range(f) == { f[i] : i \in DOMAIN f }

Rearrangements(arr) ==
    { [i \in 1..Len(arr) |-> arr[p[i]]] : p \in Permutations(1..Len(arr)) }

\* qsort_r(base, nel, width, thunk, compar): every array the library may leave.
\* With a comparator that orders the elements consistently that is any
\* rearrangement in comparator order (the order of elements that compare equal
\* is unspecified); with an inconsistent one the result is only a rearrangement.
\* An array of fewer than two elements is left alone, nothing being compared.
qsort_r(arr, ctx, key) ==
    LET elems == Range(arr)
        cm == [a \in elems |-> [b \in elems |-> compar(key, ctx, a, b)]]
        consistent ==
            /\ \A a, b \in elems : Sign(cm[a][b]) = 0 - Sign(cm[b][a])
            /\ \A a, b, c \in elems : cm[a][b] <= 0 /\ cm[b][c] <= 0 => cm[a][c] <= 0
    IN  IF Len(arr) < 2 THEN { arr }
        ELSE IF consistent
        THEN { r \in Rearrangements(arr) :
                 \A i \in 1..(Len(arr) - 1) : cm[r[i]][r[i + 1]] <= 0 }
        ELSE Rearrangements(arr)

\* A sort that keeps one entry per distinct index.
perform_index_sort_distinct(arr, mem, base, stride, key, ascending) ==
    IF key \in { SORT_KEY_NAME, SORT_KEY_PATH, SORT_KEY_SIZE, SORT_KEY_DATE }
    THEN UNION { qsort_r(d, SortContext(mem, base, stride, ascending), key) :
                    d \in { r \in SeqsUpTo(Range(arr), Len(arr)) :
                              Range(r) = Range(arr) /\ Len(r) = Cardinality(Range(arr)) } }
    ELSE { arr }

\* The arrays perform_index_sort may leave in place of `arr`.
perform_index_sort(arr, mem, base, stride, key, ascending) ==
    IF key \in { SORT_KEY_NAME, SORT_KEY_PATH, SORT_KEY_SIZE, SORT_KEY_DATE }
    THEN qsort_r(arr, SortContext(mem, base, stride, ascending), key)
    ELSE { arr }

\* What one comparator call on (a, b) dereferences.
compare_reads(mem, base, stride, key, a, b) ==
    LET ptrA == get_item_ptr(base, stride, a)
        ptrB == get_item_ptr(base, stride, b)
        at == IF key = SORT_KEY_NAME THEN 20 ELSE 28
        minLen == Min(read_u32(mem, ptrA + at + 4), read_u32(mem, ptrB + at + 4))
    IN  CASE key \in { SORT_KEY_NAME, SORT_KEY_PATH } ->
                { << ptrA + at, 8 >>, << ptrB + at, 8 >> }
                \cup (IF InRange(Len(mem), ptrA + at, 8) /\ InRange(Len(mem), ptrB + at, 8)
                      THEN { << read_u32(mem, ptrA + at), minLen >>,
                             << read_u32(mem, ptrB + at), minLen >> }
                      ELSE { })
          [] key = SORT_KEY_SIZE -> { << ptrA, 8 >>, << ptrB, 8 >> }
          [] key = SORT_KEY_DATE -> { << ptrA + 8, 8 >>, << ptrB + 8, 8 >> }
          [] OTHER -> { }

\* The library may compare any two elements of an array of two or more.
sort_reads(arr, mem, base, stride, key) ==
    IF Len(arr) < 2 THEN { }
    ELSE UNION { compare_reads(mem, base, stride, key, a, b) :
                    a \in Range(arr), b \in Range(arr) }

Sort(stride, key, ascending) ==
    LET mem == data \o adjacent
        reads == sort_reads(indices, mem, ItemBaseOffset, stride, key)
    IN  /\ last = NoCall
        /\ last' = Outcome("sort", << stride, key, ascending, indices >>, reads,
                           [value |-> 0, overflow |-> FALSE], << >>)
        /\ IF Unmapped(reads, Len(mem))
           THEN indices' \in Rearrangements(indices)
           ELSE indices' \in perform_index_sort(indices, mem, ItemBaseOffset, stride,
                                                key, ascending)
        /\ UNCHANGED << data, adjacent, libc, par, heap, writers >>

\* One call of the chosen comparator, as the library makes it during a sort.
Compare(stride, key, ascending, a, b) ==
    LET mem == data \o adjacent
        reads == compare_reads(mem, ItemBaseOffset, stride, key, a, b)
    IN  /\ last = NoCall
        /\ last' = Outcome("compare", << stride, key, ascending, a, b >>, reads,
                           [value |-> compar(key, SortContext(mem, ItemBaseOffset, stride,
                                                              ascending), a, b),
                            overflow |-> FALSE],
                           << >>)
        /\ UNCHANGED << data, adjacent, libc, indices, par, heap, writers >>

(***************************************************************************)
(* Spec: scans and lookups over a buffer that honours the record contract. *)
(***************************************************************************)
NoPar == [query |-> << >>, start |-> 0, end |-> 0, workers |-> << >>]

Init ==
    /\ data \in BuffersOver(Pool, MaxRecords)
    /\ adjacent = << >>
    /\ libc \in LibcFlavours
    /\ indices = << >>
    /\ last = NoCall
    /\ par = NoPar
    /\ heap = << >>
    /\ writers = << >>

DoScan ==
    \E start_index \in 0..RecordCount(data) :
        \E end_index \in start_index..RecordCount(data) :
            \E query \in Queries :
                Scan(RecordStride, start_index, end_index, query)

DoLookup ==
    \E target \in Targets : Lookup(RecordStride, RecordCount(data), target)

Next == DoScan \/ DoLookup \/ Return

Spec == Init /\ [][Next]_vars

(***************************************************************************)
(* SpecSort: sorts of a caller-owned index array over such a buffer.       *)
(***************************************************************************)
RecordIndices(buf) == 0..(RecordCount(buf) - 1)

SortKeys == { SORT_KEY_NAME, SORT_KEY_PATH, SORT_KEY_SIZE, SORT_KEY_DATE, 4 }

InitSort ==
    /\ data \in BuffersOver(Pool, SortRecords)
    /\ adjacent = << >>
    /\ libc = "apple"
    /\ indices \in SeqsUpTo(RecordIndices(data), MaxIndices)
    /\ last = NoCall
    /\ par = NoPar
    /\ heap = << >>
    /\ writers = << >>

DoSort ==
    \E key \in SortKeys : \E ascending \in BOOLEAN : Sort(RecordStride, key, ascending)

NextSort == DoSort \/ Return

SpecSort == InitSort /\ [][NextSort]_vars

(***************************************************************************)
(* SpecCompare: single comparator calls.                                   *)
(***************************************************************************)
InitCompare ==
    /\ data \in BuffersOver(Pool \cup NaNPool, MaxRecords)
    /\ adjacent = << >>
    /\ libc = "apple"
    /\ indices = << >>
    /\ last = NoCall
    /\ par = NoPar
    /\ heap = << >>
    /\ writers = << >>

DoCompare ==
    \E key \in SortKeys \ { 4 } : \E ascending \in BOOLEAN :
        \E a \in RecordIndices(data) : \E b \in RecordIndices(data) :
            Compare(RecordStride, key, ascending, a, b)

NextCompare == DoCompare \/ Return

SpecCompare == InitCompare /\ [][NextCompare]_vars

(***************************************************************************)
(* SpecPar: [start_index, end_index) is cut into NumWorkers contiguous     *)
(* partitions [lo, hi); a worker per partition runs perform_search_scan    *)
(* over the shared buffer, one loop iteration per step, writing to a       *)
(* results_buffer of its own of hi - lo slots.  The output regions lie in  *)
(* `heap` one after the other, worker w's starting at slot lo - start.     *)
(***************************************************************************)
ParQueries == { << >>, << 97 >>, << 98 >> }

\* Lowercased names "ab", "a" and "".
ParPool == { Templates[1], Templates[2], Templates[5] }

Cuts(lo, hi) ==
    { c \in [1..(NumWorkers - 1) -> lo..hi] :
        \A k \in 1..(NumWorkers - 2) : c[k] <= c[k + 1] }

Partitioned(query, start_index, end_index, cuts) ==
    [query |-> query, start |-> start_index, end |-> end_index,
     workers |->
        [w \in 1..NumWorkers |->
            [lo |-> IF w = 1 THEN start_index ELSE cuts[w - 1],
             hi |-> IF w = NumWorkers THEN end_index ELSE cuts[w],
             i |-> IF w = 1 THEN start_index ELSE cuts[w - 1],
             match_count |-> 0, overflow |-> FALSE, pc |-> "loop"]]]

InitPar ==
    /\ data \in BuffersOver(ParPool, ParRecords)
    /\ adjacent = << >>
    /\ libc \in LibcFlavours
    /\ indices = << >>
    /\ last = NoCall
    /\ par \in { Partitioned(query, lo, hi, cuts) :
                    query \in ParQueries,
                    << lo, hi, cuts >> \in
                        UNION { { << lo, hi, c >> : c \in Cuts(lo, hi) } :
                                    << lo, hi >> \in
                                        { r \in (0..RecordCount(data)) \X (0..RecordCount(data)) :
                                            r[1] <= r[2] } } }
    /\ heap = Fill(par.end - par.start, Unwritten)
    /\ writers = [k \in 1..(par.end - par.start) |-> { }]

\* Worker w runs the loop body for its record i.
WorkerStep(w) ==
    LET wk == par.workers[w]
        st == scan_iteration(data \o adjacent, ItemBaseOffset, RecordStride, wk.i,
                             par.query, libc, wk.lo - par.start,
                             [out |-> heap, match_count |-> wk.match_count,
                              overflow |-> wk.overflow])
    IN  /\ wk.pc = "loop"
        /\ wk.i < wk.hi
        /\ heap' = st.out
        /\ writers' = [k \in DOMAIN writers |->
                        IF st.out[k] # heap[k] THEN writers[k] \cup { w } ELSE writers[k]]
        /\ par' = [par EXCEPT !.workers[w] =
                        [wk EXCEPT !.i = wk.i + 1, !.match_count = st.match_count,
                                   !.overflow = st.overflow]]
        /\ UNCHANGED << data, adjacent, libc, indices, last >>

\* Worker w leaves the loop and returns match_count.
WorkerReturn(w) ==
    LET wk == par.workers[w]
    IN  /\ wk.pc = "loop"
        /\ wk.i >= wk.hi
        /\ par' = [par EXCEPT !.workers[w].pc = "returned"]
        /\ UNCHANGED << data, adjacent, libc, indices, last, heap, writers >>

NextPar == \E w \in 1..NumWorkers : WorkerStep(w) \/ WorkerReturn(w)

SpecPar == InitPar /\ [][NextPar]_vars

(***************************************************************************)
(* SpecRaw: the same calls on input nobody validated: a corrupt length     *)
(* field, a record count one too large, a stride too small for the fields. *)
(* What lies after the buffer is either unmapped or AdjacentLen bytes 'b'. *)
(***************************************************************************)
Strides == { RecordStride, ShortStride }

InitRaw ==
    /\ data \in BuffersOver(Pool \cup CorruptPool, RawRecords)
    /\ adjacent \in { << >>, Fill(AdjacentLen, 98) }
    /\ libc \in LibcFlavours
    /\ indices \in SeqsUpTo(0..RecordCount(data), MaxIndices)
    /\ last = NoCall
    /\ par = NoPar
    /\ heap = << >>
    /\ writers = << >>

RawScan ==
    \E stride \in Strides :
        \E start_index \in 0..(RecordCount(data) + 1) :
            \E end_index \in start_index..(RecordCount(data) + 1) :
                \E query \in Queries :
                    Scan(stride, start_index, end_index, query)

RawLookup ==
    \E stride \in Strides :
        \E count \in 0..(RecordCount(data) + 1) :
            \E target \in Targets :
                Lookup(stride, count, target)

RawSort ==
    \E stride \in Strides :
        \E key \in SortKeys : \E ascending \in BOOLEAN : Sort(stride, key, ascending)

NextRaw == RawScan \/ RawLookup \/ RawSort \/ Return

SpecRaw == InitRaw /\ [][NextRaw]_vars

(***************************************************************************)
(* Record View (specification section 4.1): the fields of record i of the  *)
(* buffer, read at the documented offsets.                                 *)
(***************************************************************************)
RecordAt(i) == ItemBaseOffset + i * RecordStride

stringField(i, at) ==
    span(data, read_u32(data, RecordAt(i) + at), read_u32(data, RecordAt(i) + at + 4))

NameOf(i) == stringField(i, 20)
PathOf(i) == stringField(i, 28)
LowerNameOf(i) == stringField(i, 36)
SizeOf(i) == read_i64(data, RecordAt(i))
ModifiedOf(i) == read_f64(data, RecordAt(i) + 8)

\* needle occurs in hay as a contiguous run of bytes.
Contains(hay, needle) ==
    \E s \in 0..(Len(hay) - Len(needle)) : \A k \in 1..Len(needle) : hay[s + k] = needle[k]

\* x <= y in unsigned byte-wise lexicographic order, a proper prefix first.
RECURSIVE BytesLeq(_, _)
BytesLeq(x, y) ==
    IF Len(x) = 0 THEN TRUE
    ELSE IF Len(y) = 0 THEN FALSE
    ELSE IF Head(x) # Head(y) THEN Head(x) < Head(y)
    ELSE BytesLeq(Tail(x), Tail(y))

IsProperPrefix(x, y) == Len(x) < Len(y) /\ SubSeq(y, 1, Len(x)) = x

\* key(a) <= key(b) for the field a sort key selects.
KeyLeq(key, a, b) ==
    CASE key = SORT_KEY_NAME -> BytesLeq(NameOf(a), NameOf(b))
      [] key = SORT_KEY_PATH -> BytesLeq(PathOf(a), PathOf(b))
      [] key = SORT_KEY_SIZE -> ~i64_less(SizeOf(b), SizeOf(a))
      [] key = SORT_KEY_DATE ->
            /\ ~ModifiedOf(a).nan
            /\ ~ModifiedOf(b).nan
            /\ ~f64_less(ModifiedOf(b), ModifiedOf(a))

KeyEq(key, a, b) == KeyLeq(key, a, b) /\ KeyLeq(key, b, a)

\* arr is in key order for the direction: non-decreasing when ascending,
\* non-increasing otherwise.
SortedFor(arr, key, ascending) ==
    \A i \in 1..(Len(arr) - 1) :
        IF ascending THEN KeyLeq(key, arr[i], arr[i + 1])
        ELSE KeyLeq(key, arr[i + 1], arr[i])

Occurrences(arr, v) == Cardinality({ k \in 1..Len(arr) : arr[k] = v })

ValidKeys == { SORT_KEY_NAME, SORT_KEY_PATH, SORT_KEY_SIZE, SORT_KEY_DATE }

\* The fields of the last call.
ScanStart == last.args[2]
ScanEnd == last.args[3]
ScanQuery == last.args[4]
ScanMatches == { i \in ScanStart..(ScanEnd - 1) : Contains(LowerNameOf(i), ScanQuery) }
Written == { k \in 1..Len(last.out) : last.out[k] # Unwritten }
LookupCount == last.args[2]
LookupTarget == last.args[3]
LookupMatches == { i \in 0..(LookupCount - 1) : PathOf(i) = LookupTarget }
SortKey == last.args[2]
SortAscending == last.args[3]
SortBefore == last.args[4]

(***************************************************************************)
(* Claims.                                                                 *)
(***************************************************************************)

\* C1: a scan returns the number of records of [start_index, end_index) whose
\* lowercased name contains the query, for every query, and the first count
\* slots of results_buffer hold exactly those indices.
C1_ScanReturnsTheContainingRecords ==
    last.op = "scan" =>
        /\ last.ret = Cardinality(ScanMatches)
        /\ last.ret <= Len(last.out)
        /\ { last.out[k] : k \in 1..Min(last.ret, Len(last.out)) } = ScanMatches

\* C2: a scan with an empty query returns every index of the range, records
\* with an empty lowercased name included; an empty range yields no match.
C2_EmptyQueryMatchesEveryRecord ==
    last.op = "scan" /\ ScanQuery = << >> =>
        /\ last.ret = ScanEnd - ScanStart
        /\ last.out = [k \in 1..(ScanEnd - ScanStart) |-> ScanStart + k - 1]

\* C3: a scan writes only indices of [start_index, end_index), in strictly
\* ascending order, into the first count slots, and count never exceeds the
\* capacity end_index - start_index of results_buffer.
C3_ScanOutputInRangeAscending ==
    last.op = "scan" =>
        /\ ~last.overflow
        /\ last.ret \in 0..(ScanEnd - ScanStart)
        /\ Written = 1..last.ret
        /\ \A k \in Written : last.out[k] \in ScanStart..(ScanEnd - 1)
        /\ \A j, k \in Written : j < k => last.out[j] < last.out[k]

C3_Witness ==
    /\ last.op = "scan"
    /\ ScanQuery # << >>
    /\ ScanStart >= 1
    /\ last.ret >= 1
    /\ last.ret < ScanEnd - ScanStart
    /\ last.out[1] > ScanStart

\* C4: after a sort the key field read at successive array positions is
\* non-decreasing when ascending and non-increasing when descending: unsigned
\* byte-wise lexicographic order of the raw name or path with a proper prefix
\* first, signed 64-bit order of the size, numeric order of the time.
C4_SortedByKey ==
    last.op = "sort" /\ SortKey \in ValidKeys =>
        SortedFor(indices, SortKey, SortAscending)

C4_Witness ==
    /\ last.op = "sort"
    /\ SortKey = SORT_KEY_NAME
    /\ SortAscending
    /\ Len(indices) = 3
    /\ indices # SortBefore
    /\ IsProperPrefix(NameOf(indices[1]), NameOf(indices[2]))

\* C5: a sort leaves a permutation of the array it was given: the same length
\* and every index as many times as before, for every key and direction.
C5_SortIsAPermutation ==
    last.op = "sort" =>
        /\ Len(indices) = Len(SortBefore)
        /\ \A v \in Range(indices) \cup Range(SortBefore) :
                Occurrences(indices, v) = Occurrences(SortBefore, v)

C5_Witness ==
    /\ last.op = "sort"
    /\ SortKey = SORT_KEY_SIZE
    /\ indices # SortBefore
    /\ \E v \in Range(indices) : Occurrences(indices, v) = 2

\* C6, as claimed: sorting an array already sorted for the same key and
\* direction leaves it unchanged element for element, equal keys included.
C6_SortedArrayUnchanged ==
    last.op = "sort" /\ SortKey \in ValidKeys
        /\ SortedFor(SortBefore, SortKey, SortAscending)
    => indices = SortBefore

\* C6, amended: sorting an array already sorted for the same key and direction
\* leaves the key at every position unchanged, and leaves in place every entry
\* whose key no other index of the array shares.
C6_SortedArrayKeepsKeys ==
    last.op = "sort" /\ SortKey \in ValidKeys
        /\ SortedFor(SortBefore, SortKey, SortAscending)
    => \A k \in 1..Len(SortBefore) :
            /\ KeyEq(SortKey, indices[k], SortBefore[k])
            /\ (\A v \in Range(SortBefore) :
                    KeyEq(SortKey, v, SortBefore[k]) => v = SortBefore[k])
               => indices[k] = SortBefore[k]

C6_Witness ==
    /\ last.op = "sort"
    /\ SortKey \in ValidKeys
    /\ Len(SortBefore) = 3
    /\ SortedFor(SortBefore, SortKey, SortAscending)
    /\ indices # SortBefore
    /\ indices[1] = SortBefore[1]

\* C7: a lookup returns -1 exactly when no record of [0, count) has a path
\* equal to the target, and the smallest such index otherwise; a path that
\* only extends the target, or that the target extends, is not a match.
C7_LookupFindsFirstExactPath ==
    last.op = "lookup" =>
        IF LookupMatches = { } THEN last.ret = 0 - 1
        ELSE /\ last.ret \in LookupMatches
             /\ \A i \in LookupMatches : last.ret <= i

C7_Witness ==
    /\ last.op = "lookup"
    /\ last.ret = 1
    /\ IsProperPrefix(LookupTarget, PathOf(0))
    /\ LookupCount = 3
    /\ PathOf(2) = LookupTarget

\* C10: the comparator of each key and direction is a total preorder on the
\* records (for the time key, on those whose time is not NaN): cmp(a, b) and
\* cmp(b, a) have opposite signs, cmp(a, a) = 0, cmp(a, b) <= 0 and
\* cmp(b, c) <= 0 give cmp(a, c) <= 0; and the descending comparator's sign is
\* the negation of the ascending comparator's.
CompareKey == last.args[2]
CompareAscending == last.args[3]
CompareA == last.args[4]
CompareB == last.args[5]
Cmp(ascending, a, b) ==
    compar(CompareKey, SortContext(data, ItemBaseOffset, RecordStride, ascending), a, b)
Comparable(i) == CompareKey = SORT_KEY_DATE => ~ModifiedOf(i).nan

\* C10: the comparator call just made obeys the total-preorder laws and the
\* direction law stated above.
C10_ComparatorIsATotalPreorder ==
    last.op = "compare" /\ Comparable(CompareA) /\ Comparable(CompareB) =>
        /\ Sign(last.ret) = 0 - Sign(Cmp(CompareAscending, CompareB, CompareA))
        /\ CompareA = CompareB => last.ret = 0
        /\ \A c \in RecordIndices(data) :
                Comparable(c) /\ last.ret <= 0 /\ Cmp(CompareAscending, CompareB, c) <= 0
                => Cmp(CompareAscending, CompareA, c) <= 0
        /\ Sign(Cmp(~CompareAscending, CompareA, CompareB)) = 0 - Sign(last.ret)

C10_Witness ==
    /\ last.op = "compare"
    /\ CompareKey = SORT_KEY_NAME
    /\ ~CompareAscending
    /\ last.ret < 0
    /\ \E c \in RecordIndices(data) :
            /\ Cmp(CompareAscending, CompareB, c) < 0
            /\ IsProperPrefix(NameOf(c), NameOf(CompareB))

\* C8: with the range cut into disjoint contiguous partitions scanned
\* concurrently, under every interleaving each output location is written by
\* at most one worker, the worker whose region holds it, no worker stores
\* outside the output memory, and once all have returned the partitions'
\* outputs concatenated in partition order equal the output of one scan of the
\* whole range.
RegionOf(w) ==
    (par.workers[w].lo - par.start + 1)..(par.workers[w].hi - par.start)

RECURSIVE Concatenated(_)
Concatenated(w) ==
    IF w = 0 THEN << >>
    ELSE Concatenated(w - 1)
         \o SubSeq(heap, par.workers[w].lo - par.start + 1,
                   par.workers[w].lo - par.start + par.workers[w].match_count)

WholeScan ==
    perform_search_scan(data, ItemBaseOffset, RecordStride, par.start, par.end, par.query,
                        libc, Fill(par.end - par.start, Unwritten), 0)

AllReturned == \A w \in DOMAIN par.workers : par.workers[w].pc = "returned"

\* C8: single writer per output location, no store outside the output memory,
\* and concatenated partition outputs equal the whole-range scan's output.
C8_PartitionedScanEqualsWholeScan ==
    /\ \A k \in DOMAIN writers :
            /\ Cardinality(writers[k]) <= 1
            /\ \A w \in writers[k] : k \in RegionOf(w)
    /\ \A w \in DOMAIN par.workers : ~par.workers[w].overflow
    /\ AllReturned =>
            Concatenated(Len(par.workers))
                = SubSeq(WholeScan.out, 1, WholeScan.match_count)

C8_Witness ==
    /\ Len(par.workers) >= 2
    /\ AllReturned
    /\ par.query # << >>
    /\ par.workers[1].match_count >= 1
    /\ par.workers[1].match_count < par.workers[1].hi - par.workers[1].lo
    /\ par.workers[2].match_count >= 1

\* C9: on malformed input (a record of the call that starts or has a string
\* span ending past the end of the buffer, or a stride too small to hold the
\* fields) scan, sort and lookup fail with OutOfBounds and read nothing
\* outside the buffer.
CallStride == last.args[1]

CallRecords ==
    CASE last.op = "scan" -> ScanStart..(ScanEnd - 1)
      [] last.op = "lookup" -> 0..(LookupCount - 1)
      [] last.op = "sort" -> Range(SortBefore)
      [] OTHER -> { }

RecordMalformed(stride, i) ==
    LET p == ItemBaseOffset + i * stride
    IN  \/ ~InRange(Len(data), p, 44)
        \/ \E at \in { 20, 28, 36 } :
                ~InRange(Len(data), read_u32(data, p + at), read_u32(data, p + at + 4))

MalformedCall ==
    /\ last.op \in { "scan", "lookup", "sort" }
    /\ \/ CallStride < 44
       \/ \E i \in CallRecords : RecordMalformed(CallStride, i)

\* C9: every malformed call ends with the outcome OutOfBounds, having read
\* nothing outside the buffer.
C9_MalformedInputFailsWithOutOfBounds ==
    MalformedCall => last.status = "OutOfBounds" /\ ~last.oob

====
